---- MODULE Spec2Model ----
(***************************************************************************)
(* A model of the hex-board demo (src/src/app/page.tsx).                   *)
(*                                                                         *)
(*   Spec      the HexGrid component: the mount effect, its five input     *)
(*             listeners, the requestAnimationFrame redraw loop, cleanup.  *)
(*   SpecGrid  generateHexGrid, run loop iteration by loop iteration.      *)
(*   SpecHome  Home: generateHexGrid, shuffle, and the tile assignment.    *)
(*   SpecLive  Spec with a fair frame scheduler.                           *)
(*   SpecHomeRuns, SpecShuffle  Home called again; shuffle on its own.     *)
(*   SpecDraft0, SpecDraft1  the HexGrid drafts of src/unnamed.            *)
(*   SpecZoomDouble  handleWheel on IEEE-754 doubles.                      *)
(*                                                                         *)
(* Numbers.  Pixel positions are integers.  The zoom factor is kept in     *)
(* hundredths (zoom = 100 is the factor 1) and zoomSpeed in tenths, so     *)
(* that the step 0.1 * zoomSpeed is the integer zoomSpeed, in hundredths.  *)
(* The size handed to the renderer, hexSize * zoom, is thus in hundredths  *)
(* of a pixel.                                                             *)
(***************************************************************************)
EXTENDS Integers, Sequences, FiniteSets, TLC

VARIABLES
    \* ---- HexGrid ----
    phase,              \* "rendered" | "mounted" | "inert" | "unmounted"
    props,              \* the props of the latest React render
    closures,           \* closures[i]: the props captured by effect run i
    listeners,          \* the canvas' listener list: <<[type, inst]>>
    pending,            \* the frame scheduler's callback list: {[id, inst]}
    nextHandle,         \* the handle the next requestAnimationFrame returns
    frameRef,           \* frameRef.current
    zoom,               \* zoom.current, in hundredths
    offset,             \* offset.current
    isDragging,         \* isDragging.current
    lastMousePosition,  \* lastMousePosition.current
    viewport,           \* window.innerWidth / innerHeight
    canvasSize,         \* the canvasSize state
    drawn,              \* the arguments of the latest renderGrid call
    \* ---- HexGrid, history (not read by any handler) ----
    ptrHistory,         \* the pointer events dispatched so far
    cleaned,            \* the effect runs whose cleanup has run
    lastEvent,          \* the kind of the latest step
    nEvents,            \* how many steps were taken
    hasContext,         \* whether canvas.getContext("2d") yields a context
    \* ---- the HexGrid drafts (src/unnamed) ----
    draftWindowSize,    \* the windowSize state of the drafts
    \* ---- handleWheel in double precision, history ----
    wheelHistory,       \* the latest two wheel events of SpecZoomDouble
    \* ---- generateHexGrid ----
    radius, q, r, hexes, gpc,
    \* ---- Home ----
    catalog,            \* the elements of the imported planets array
    copy, si,           \* shuffle's locals
    planetDeck, tiles, hidx, hpc,
    deckRef,            \* the array object copy and planetDeck denote
    \* ---- Home, history ----
    choices,            \* the indices j shuffle drew, in order
    runs                \* how many times Home was called

hexGridVars == <<phase, props, closures, listeners, pending, nextHandle,
                 frameRef, zoom, offset, isDragging, lastMousePosition,
                 viewport, canvasSize, drawn, ptrHistory, cleaned, lastEvent,
                 nEvents, hasContext, draftWindowSize, wheelHistory>>
gridVars == <<radius, q, r, hexes, gpc>>
homeVars == <<catalog, copy, si, planetDeck, tiles, hidx, hpc, deckRef,
              choices, runs>>
vars == <<hexGridVars, gridVars, homeVars>>

(***************************************************************************)
(* Bounds of the model.                                                    *)
(***************************************************************************)
MaxEvents == 6

(***************************************************************************)
(* Program constants.                                                      *)
(***************************************************************************)
ZoomInit == 100
ZoomMin == 50
ZoomMax == 200
ZoomStep == 1
DefaultHexSize == 75
DefaultZoomSpeed == 10
DefaultPanSpeed == 2

Min(a, b) == IF a < b THEN a ELSE b
Max(a, b) == IF a > b THEN a ELSE b

\* The inputs the events are drawn from.
Positions == { [x |-> 3, y |-> 1], [x |-> 1, y |-> 4] }
DeltaYs == { -1, 0, 1 }
InitialViewport == [width |-> 800, height |-> 600]
Viewports == { InitialViewport, [width |-> 1024, height |-> 768] }
DefaultProps == [hexSize |-> DefaultHexSize, tiles |-> "board",
                 zoomSpeed |-> DefaultZoomSpeed, panSpeed |-> DefaultPanSpeed]
\* The props a parent re-render may hand down instead of the defaults.
PropChanges == { [hexSize |-> 40, tiles |-> "board2", zoomSpeed |-> 25, panSpeed |-> 3],
                 [DefaultProps EXCEPT !.zoomSpeed = -200],
                 DefaultProps }

ListenerTypes == <<"wheel", "mousedown", "mousemove", "mouseup", "mouseleave">>

(***************************************************************************)
(* The browser: the frame scheduler and the canvas' listener list.  A      *)
(* world w is the record of listeners, pending, nextHandle, frameRef and   *)
(* closures; the operators below are the calls the effect makes on it.     *)
(***************************************************************************)
World == [listeners |-> listeners, pending |-> pending,
          nextHandle |-> nextHandle, frameRef |-> frameRef,
          closures |-> closures]

\* The request handles are the numbers 1..HandleSpace of a counter that
\* wraps (in a browser, an unsigned long that skips 0).
HandleSpace == 8

\* frameRef.current = requestAnimationFrame(render), render of effect run inst
requestAnimationFrame(w, inst) ==
    [w EXCEPT !.pending = @ \cup { [id |-> w.nextHandle, inst |-> inst] },
              !.frameRef = w.nextHandle,
              !.nextHandle = (@ % HandleSpace) + 1]

cancelAnimationFrame(w, handle) ==
    [w EXCEPT !.pending = { c \in @ : c.id # handle }]

addEventListeners(w, inst) ==
    [w EXCEPT !.listeners =
        @ \o [i \in 1..Len(ListenerTypes) |-> [type |-> ListenerTypes[i], inst |-> inst]]]

removeEventListeners(w, inst) ==
    [w EXCEPT !.listeners = SelectSeq(@, LAMBDA l : l.inst # inst)]

\* The body of the effect past its two early returns.
EffectSetup(w, p) ==
    LET inst == Len(w.closures) + 1
        w1 == [w EXCEPT !.closures = Append(@, p)]
    IN  requestAnimationFrame(addEventListeners(w1, inst), inst)

\* EffectCleanup without the cancelAnimationFrame call.
EffectCleanup_NoCancel(w, inst) == removeEventListeners(w, inst)

\* The function the effect returns.
EffectCleanup(w, inst) ==
    removeEventListeners(cancelAnimationFrame(w, w.frameRef), inst)

(***************************************************************************)
(* The handlers, as functions of the refs rs = [zoom, offset, isDragging,  *)
(* lastMousePosition] and of the props cl their effect run captured.       *)
(***************************************************************************)
Refs == [zoom |-> zoom, offset |-> offset, isDragging |-> isDragging,
         lastMousePosition |-> lastMousePosition]

\* handleWheel with the upper clamp alone.
handleWheel_NoLowerClamp(rs, cl, deltaY) ==
    LET delta == (IF deltaY < 0 THEN ZoomStep ELSE -ZoomStep) * cl.zoomSpeed
    IN  [rs EXCEPT !.zoom = Min(rs.zoom + delta, ZoomMax)]

\* handleWheel that also ends a drag.
handleWheel_StopsDrag(rs, cl, deltaY) ==
    LET delta == (IF deltaY < 0 THEN ZoomStep ELSE -ZoomStep) * cl.zoomSpeed
    IN  [rs EXCEPT !.zoom = Min(Max(rs.zoom + delta, ZoomMin), ZoomMax),
                   !.isDragging = FALSE]

handleWheel(rs, cl, deltaY) ==
    LET delta == (IF deltaY < 0 THEN ZoomStep ELSE -ZoomStep) * cl.zoomSpeed
    IN  [rs EXCEPT !.zoom = Min(Max(rs.zoom + delta, ZoomMin), ZoomMax)]

handleMouseDown(rs, cl, pos) ==
    [rs EXCEPT !.isDragging = TRUE, !.lastMousePosition = pos]

\* handleMouseMove that leaves lastMousePosition at the press position.
handleMouseMove_KeepsBaseline(rs, cl, pos) ==
    IF ~rs.isDragging THEN rs
    ELSE LET dx == (pos.x - rs.lastMousePosition.x) * cl.panSpeed
             dy == (pos.y - rs.lastMousePosition.y) * cl.panSpeed
         IN  [rs EXCEPT !.offset = [x |-> rs.offset.x + dx, y |-> rs.offset.y + dy]]

\* handleMouseMove without the test of isDragging.
handleMouseMove_Unguarded(rs, cl, pos) ==
    LET dx == (pos.x - rs.lastMousePosition.x) * cl.panSpeed
        dy == (pos.y - rs.lastMousePosition.y) * cl.panSpeed
    IN  [rs EXCEPT !.offset = [x |-> rs.offset.x + dx, y |-> rs.offset.y + dy],
                   !.lastMousePosition = pos]

handleMouseMove(rs, cl, pos) ==
    IF ~rs.isDragging THEN rs
    ELSE LET dx == (pos.x - rs.lastMousePosition.x) * cl.panSpeed
             dy == (pos.y - rs.lastMousePosition.y) * cl.panSpeed
         IN  [rs EXCEPT !.offset = [x |-> rs.offset.x + dx, y |-> rs.offset.y + dy],
                        !.lastMousePosition = pos]

\* handleMouseUp that forgets to leave the dragging mode.
handleMouseUp_KeepsDragging(rs, cl, pos) == rs

handleMouseUp(rs, cl, pos) ==
    [rs EXCEPT !.isDragging = FALSE]

Handle(type, rs, cl, arg) ==
    CASE type = "wheel"      -> handleWheel(rs, cl, arg)
      [] type = "mousedown"  -> handleMouseDown(rs, cl, arg)
      [] type = "mousemove"  -> handleMouseMove(rs, cl, arg)
      [] type = "mouseup"    -> handleMouseUp(rs, cl, arg)
      [] type = "mouseleave" -> handleMouseUp(rs, cl, arg)

\* The canvas dispatches an event to its listeners of that type, in the
\* order they were added.
RECURSIVE Dispatch(_, _, _, _)
Dispatch(ls, type, rs, arg) ==
    IF ls = << >> THEN rs
    ELSE LET l == Head(ls)
             rs1 == IF l.type = type THEN Handle(type, rs, closures[l.inst], arg)
                    ELSE rs
         IN  Dispatch(Tail(ls), type, rs1, arg)

Listening(type) == \E i \in 1..Len(listeners) : listeners[i].type = type

(***************************************************************************)
(* The projection and the renderer.  A size is in hundredths of a pixel    *)
(* and Math.sqrt(3) is taken as 1732/1000, so the results below are in     *)
(* units of 1/200000 pixel: size * (3/2) * q is size * 3000 * q units and  *)
(* size * sqrt(3) * (r + q/2) is size * 1732 * (2r + q) units.             *)
(***************************************************************************)
createHex(hq, hr) == [q |-> hq, r |-> hr, s |-> -hq - hr]

\* hexToPixel for rows that are shifted by half a hex from the first column on.
hexToPixel_RowOffset(hex, size) ==
    [x |-> size * 3000 * hex.q,
     y |-> size * 1732 * (2 * hex.r + hex.q + 1)]

hexToPixel(hex, size) ==
    [x |-> size * 3000 * hex.q,
     y |-> size * 1732 * (2 * hex.r + hex.q)]

\* The hexes of the tiles drawn: the origin and its six neighbours.
BoardHexes == { createHex(a, b) : a, b \in -1..1 } \ { createHex(-1, -1), createHex(1, 1) }

\* renderGrid(ctx, tiles, size, canvas, offset): the arguments of the call
\* and the centre each hex is drawn at, in units of 1/200000 pixel.
renderGrid(tileSet, size, canvas, off) ==
    [size |-> size, canvas |-> canvas, offset |-> off, tiles |-> tileSet,
     centers |-> [hex \in BoardHexes |->
                    [x |-> hexToPixel(hex, size).x + 100000 * canvas.width + 200000 * off.x,
                     y |-> hexToPixel(hex, size).y + 100000 * canvas.height + 200000 * off.y]]]

(***************************************************************************)
(* Initial state: HexGrid was rendered for the first time, its effect has  *)
(* not run yet.                                                            *)
(***************************************************************************)
NoDraw == [size |-> 0, canvas |-> [width |-> 0, height |-> 0],
           offset |-> [x |-> 0, y |-> 0], tiles |-> "none", centers |-> << >>,
           by |-> 0]

InitHexGrid ==
    /\ phase = "rendered"
    /\ props = DefaultProps
    /\ closures = << >>
    /\ listeners = << >>
    /\ pending = {}
    /\ nextHandle = 1
    /\ frameRef = 0
    /\ zoom = ZoomInit
    /\ offset = [x |-> 0, y |-> 0]
    /\ isDragging = FALSE
    /\ lastMousePosition = [x |-> 0, y |-> 0]
    /\ viewport = InitialViewport
    /\ hasContext \in BOOLEAN
    /\ canvasSize = [width |-> 0, height |-> 0]
    /\ drawn = NoDraw
    /\ ptrHistory = << >>
    /\ cleaned = {}
    /\ lastEvent = "none"
    /\ nEvents = 0
    /\ draftWindowSize = InitialViewport
    /\ wheelHistory = << >>

SetWorld(w) ==
    /\ listeners' = w.listeners
    /\ pending' = w.pending
    /\ nextHandle' = w.nextHandle
    /\ frameRef' = w.frameRef
    /\ closures' = w.closures

SetRefs(rs) ==
    /\ zoom' = rs.zoom
    /\ offset' = rs.offset
    /\ isDragging' = rs.isDragging
    /\ lastMousePosition' = rs.lastMousePosition

Step(kind) ==
    /\ nEvents < MaxEvents
    /\ nEvents' = nEvents + 1
    /\ lastEvent' = kind
    /\ UNCHANGED <<hasContext, draftWindowSize, wheelHistory, gridVars, homeVars>>

\* The effect runs: it returns early without a canvas or a 2d context.
RunEffect(w) ==
    IF hasContext THEN /\ SetWorld(EffectSetup(w, props'))
               /\ phase' = "mounted"
    ELSE /\ SetWorld(w)
         /\ phase' = "inert"

\* The instance whose cleanup React holds.
Live == Len(closures)

Mount ==
    /\ phase = "rendered"
    /\ Step("mount")
    /\ props' = props
    /\ RunEffect(World)
    /\ UNCHANGED <<zoom, offset, isDragging, lastMousePosition, viewport,
                   canvasSize, drawn, ptrHistory, cleaned>>

\* A parent re-render changes a dependency: cleanup of the previous run, then
\* the effect again.
ReRun(p) ==
    /\ phase \in {"mounted", "inert"}
    /\ p # props
    /\ Step("rerun")
    /\ props' = p
    /\ IF phase = "mounted"
       THEN /\ RunEffect(EffectCleanup(World, Live))
            /\ cleaned' = cleaned \cup {Live}
       ELSE /\ RunEffect(World)
            /\ cleaned' = cleaned
    /\ UNCHANGED <<zoom, offset, isDragging, lastMousePosition, viewport,
                   canvasSize, drawn, ptrHistory>>

Unmount ==
    /\ phase \in {"mounted", "inert"}
    /\ Step("unmount")
    /\ phase' = "unmounted"
    /\ IF phase = "mounted"
       THEN /\ SetWorld(EffectCleanup(World, Live))
            /\ cleaned' = cleaned \cup {Live}
       ELSE /\ SetWorld(World)
            /\ cleaned' = cleaned
    /\ UNCHANGED <<props, zoom, offset, isDragging, lastMousePosition,
                   viewport, canvasSize, drawn, ptrHistory>>

\* render that does not keep the handle of the request it makes.
render_DropsHandle(c) ==
    LET cl == closures[c.inst]
        windowSize == viewport
        w0 == [World EXCEPT !.pending = @ \ {c}]
    IN  /\ canvasSize' = windowSize
        /\ drawn' = [by |-> c.inst] @@
                     renderGrid(cl.tiles, cl.hexSize * zoom, windowSize, offset)
        /\ SetWorld([requestAnimationFrame(w0, c.inst) EXCEPT !.frameRef = frameRef])

\* render that draws with the canvasSize state of the previous frame.
render_StaleSize(c) ==
    LET cl == closures[c.inst]
        windowSize == viewport
        w0 == [World EXCEPT !.pending = @ \ {c}]
    IN  /\ canvasSize' = windowSize
        /\ drawn' = [by |-> c.inst] @@
                     renderGrid(cl.tiles, cl.hexSize * zoom, canvasSize, offset)
        /\ SetWorld(requestAnimationFrame(w0, c.inst))

\* render that draws and does not request the next frame.
render_NoRequest(c) ==
    LET cl == closures[c.inst]
        windowSize == viewport
        w0 == [World EXCEPT !.pending = @ \ {c}]
    IN  /\ canvasSize' = windowSize
        /\ drawn' = [by |-> c.inst] @@
                     renderGrid(cl.tiles, cl.hexSize * zoom, windowSize, offset)
        /\ SetWorld(w0)

\* render of effect run c.inst, called by the frame scheduler for request c.
render(c) ==
    LET cl == closures[c.inst]
        windowSize == viewport
        w0 == [World EXCEPT !.pending = @ \ {c}]
    IN  /\ canvasSize' = windowSize
        /\ drawn' = [by |-> c.inst] @@
                     renderGrid(cl.tiles, cl.hexSize * zoom, windowSize, offset)
        /\ SetWorld(requestAnimationFrame(w0, c.inst))

Redraw(c) ==
    /\ c \in pending
    /\ Step("redraw")
    /\ render(c)
    /\ UNCHANGED <<phase, props, zoom, offset, isDragging, lastMousePosition,
                   viewport, ptrHistory, cleaned>>

Resize(v) ==
    /\ v # viewport
    /\ Step("resize")
    /\ viewport' = v
    /\ UNCHANGED <<phase, props, closures, listeners, pending, nextHandle,
                   frameRef, zoom, offset, isDragging, lastMousePosition,
                   canvasSize, drawn, ptrHistory, cleaned>>

Wheel(deltaY) ==
    /\ Listening("wheel")
    /\ Step("wheel")
    /\ SetRefs(Dispatch(listeners, "wheel", Refs, deltaY))
    /\ UNCHANGED <<phase, props, closures, listeners, pending, nextHandle,
                   frameRef, viewport, canvasSize, drawn, ptrHistory, cleaned>>

\* A pointer event; the history keeps its kind, its position and the
\* panSpeed of the latest effect run.
Pointer(type, kind, pos) ==
    /\ Listening(type)
    /\ Step(kind)
    /\ SetRefs(Dispatch(listeners, type, Refs, pos))
    /\ ptrHistory' = Append(ptrHistory,
                            [kind |-> kind, pos |-> pos,
                             panSpeed |-> closures[Live].panSpeed])
    /\ UNCHANGED <<phase, props, closures, listeners, pending, nextHandle,
                   frameRef, viewport, canvasSize, drawn, cleaned>>

MouseDown(pos) == Pointer("mousedown", "press", pos)
MouseMove(pos) == Pointer("mousemove", "move", pos)
\* handleMouseUp takes no event: the position of a release or a leave is
\* not read, and the history keeps none.
NoPosition == [x |-> 0, y |-> 0]
MouseUp == Pointer("mouseup", "release", NoPosition)
MouseLeave == Pointer("mouseleave", "leave", NoPosition)

Next ==
    \/ Mount
    \/ \E p \in PropChanges : ReRun(p)
    \/ Unmount
    \/ \E c \in pending : Redraw(c)
    \/ \E v \in Viewports : Resize(v)
    \/ \E d \in DeltaYs : Wheel(d)
    \/ \E pos \in Positions : MouseDown(pos)
    \/ \E pos \in Positions : MouseMove(pos)
    \/ MouseUp
    \/ MouseLeave

(***************************************************************************)
(* SpecLive: the same component with a frame scheduler that is fair: a     *)
(* pending request is eventually called.  The redraw ticks are not counted *)
(* in nEvents; the other steps are, up to MaxLiveInputs of them.           *)
(***************************************************************************)
MaxLiveInputs == 3

RedrawLive(c) ==
    /\ c \in pending
    /\ lastEvent' = "redraw"
    /\ render(c)
    /\ UNCHANGED <<phase, props, zoom, offset, isDragging, lastMousePosition,
                   viewport, ptrHistory, cleaned, nEvents, hasContext,
                   draftWindowSize, wheelHistory, gridVars, homeVars>>

Tick == \E c \in pending : RedrawLive(c)

NextLive ==
    \/ Tick
    \/ nEvents < MaxLiveInputs /\ Mount
    \/ nEvents < MaxLiveInputs /\ \E p \in PropChanges : ReRun(p)
    \/ nEvents < MaxLiveInputs /\ Unmount
    \/ nEvents < MaxLiveInputs /\ \E v \in Viewports : Resize(v)
    \/ nEvents < MaxLiveInputs /\ \E d \in DeltaYs : Wheel(d)
    \/ nEvents < MaxLiveInputs /\ \E pos \in Positions : MouseDown(pos)
    \/ nEvents < MaxLiveInputs /\ \E pos \in Positions : MouseMove(pos)
    \/ nEvents < MaxLiveInputs /\ MouseUp
    \/ nEvents < MaxLiveInputs /\ MouseLeave

InitGridIdle ==
    /\ radius = 0 /\ q = 0 /\ r = 0 /\ hexes = << >> /\ gpc = "idle"

InitHomeIdle ==
    /\ catalog = << >> /\ copy = << >> /\ si = 0 /\ planetDeck = << >>
    /\ tiles = << >> /\ hidx = 0 /\ hpc = "idle"
    /\ deckRef = "none" /\ choices = << >> /\ runs = 0

Init == InitHexGrid /\ InitGridIdle /\ InitHomeIdle
Spec == Init /\ [][Next]_vars
SpecLive == Init /\ [][NextLive]_vars /\ WF_vars(Tick)

(***************************************************************************)
(* The HexGrid draft of src/unnamed/part_000.  zoom, offset and windowSize *)
(* are React state; the effect depends on [hexSize, tiles, zoom, offset]   *)
(* and its render closes over the values of the React render it ran in.    *)
(* A state change and the re-render it causes are one step.                *)
(***************************************************************************)
DraftStep(kind) ==
    /\ nEvents < MaxEvents
    /\ nEvents' = nEvents + 1
    /\ lastEvent' = kind
    /\ UNCHANGED <<hasContext, wheelHistory, gridVars, homeVars>>

\* What the effect run of a React render closes over.
Draft0Closure(z, off) ==
    [hexSize |-> props.hexSize, tiles |-> props.tiles,
     zoomSpeed |-> props.zoomSpeed, panSpeed |-> props.panSpeed,
     zoom |-> z, offset |-> off, windowSize |-> draftWindowSize]

\* requestAnimationFrame(render): the handle returned is dropped.
Draft0Request(w, inst) ==
    [requestAnimationFrame(w, inst) EXCEPT !.frameRef = w.frameRef]

\* cancelAnimationFrame(render): the argument is a function, which converts
\* to the handle 0.
FunctionAsHandle == 0

Draft0Setup(w, cl) ==
    LET inst == Len(w.closures) + 1
        w1 == [w EXCEPT !.closures = Append(@, cl)]
    IN  Draft0Request(addEventListeners(w1, inst), inst)

Draft0Cleanup(w, inst) ==
    removeEventListeners(cancelAnimationFrame(w, FunctionAsHandle), inst)

Draft0RunEffect(w, z, off) ==
    IF hasContext THEN /\ SetWorld(Draft0Setup(w, Draft0Closure(z, off)))
                       /\ phase' = "mounted"
    ELSE /\ SetWorld(w)
         /\ phase' = "inert"

\* A re-render after zoom or offset changed: cleanup, then the effect again.
Draft0ReRender(z, off) ==
    IF phase = "mounted"
    THEN /\ Draft0RunEffect(Draft0Cleanup(World, Live), z, off)
         /\ cleaned' = cleaned \cup {Live}
    ELSE /\ Draft0RunEffect(World, z, off)
         /\ cleaned' = cleaned

Draft0Mount ==
    /\ phase = "rendered"
    /\ DraftStep("mount")
    /\ Draft0RunEffect(World, zoom, offset)
    /\ UNCHANGED <<props, zoom, offset, isDragging, lastMousePosition, viewport,
                   canvasSize, drawn, ptrHistory, cleaned, draftWindowSize>>

Draft0Unmount ==
    /\ phase \in {"mounted", "inert"}
    /\ DraftStep("unmount")
    /\ phase' = "unmounted"
    /\ IF phase = "mounted"
       THEN /\ SetWorld(Draft0Cleanup(World, Live))
            /\ cleaned' = cleaned \cup {Live}
       ELSE /\ SetWorld(World)
            /\ cleaned' = cleaned
    /\ UNCHANGED <<props, zoom, offset, isDragging, lastMousePosition,
                   viewport, canvasSize, drawn, ptrHistory, draftWindowSize>>

\* render of effect run c.inst: it draws what the run closed over.
Draft0Render(c) ==
    LET cl == closures[c.inst]
        w0 == [World EXCEPT !.pending = @ \ {c}]
    IN  /\ drawn' = [by |-> c.inst] @@
                     renderGrid(cl.tiles, cl.hexSize * cl.zoom, cl.windowSize, cl.offset)
        /\ SetWorld(Draft0Request(w0, c.inst))

Draft0Redraw(c) ==
    /\ c \in pending
    /\ DraftStep("redraw")
    /\ Draft0Render(c)
    /\ UNCHANGED <<phase, props, zoom, offset, isDragging, lastMousePosition,
                   viewport, canvasSize, ptrHistory, cleaned, draftWindowSize>>

\* resizeWindow: windowSize is not a dependency of the effect.
Draft0Resize(v) ==
    /\ phase \in {"mounted", "inert"}
    /\ v # viewport
    /\ DraftStep("resize")
    /\ viewport' = v
    /\ draftWindowSize' = v
    /\ canvasSize' = v
    /\ UNCHANGED <<phase, props, closures, listeners, pending, nextHandle,
                   frameRef, zoom, offset, isDragging, lastMousePosition,
                   drawn, ptrHistory, cleaned>>

\* handleWheel: setZoom with the clamped sum; React re-renders when the
\* value differs from the previous one.
Draft0Wheel(deltaY) ==
    /\ Listening("wheel")
    /\ DraftStep("wheel")
    /\ LET rs == Dispatch(listeners, "wheel", Refs, deltaY)
       IN  /\ SetRefs(rs)
           /\ IF rs.zoom # zoom
              THEN Draft0ReRender(rs.zoom, offset)
              ELSE /\ SetWorld(World)
                   /\ UNCHANGED <<phase, cleaned>>
    /\ UNCHANGED <<props, viewport, canvasSize, drawn, ptrHistory,
                   draftWindowSize>>

\* handleMouseMove in a drag: setOffset with a new object, so React
\* re-renders whatever the movement was.
Draft0Pointer(type, kind, pos) ==
    /\ Listening(type)
    /\ DraftStep(kind)
    /\ LET rs == Dispatch(listeners, type, Refs, pos)
       IN  /\ SetRefs(rs)
           /\ IF type = "mousemove" /\ isDragging
              THEN Draft0ReRender(zoom, rs.offset)
              ELSE /\ SetWorld(World)
                   /\ UNCHANGED <<phase, cleaned>>
    /\ ptrHistory' = Append(ptrHistory,
                            [kind |-> kind, pos |-> pos,
                             panSpeed |-> closures[Live].panSpeed])
    /\ UNCHANGED <<props, viewport, canvasSize, drawn, draftWindowSize>>

NextDraft0 ==
    \/ Draft0Mount
    \/ Draft0Unmount
    \/ \E c \in pending : Draft0Redraw(c)
    \/ \E v \in Viewports : Draft0Resize(v)
    \/ \E d \in DeltaYs : Draft0Wheel(d)
    \/ \E pos \in Positions : Draft0Pointer("mousedown", "press", pos)
    \/ \E pos \in Positions : Draft0Pointer("mousemove", "move", pos)
    \/ Draft0Pointer("mouseup", "release", NoPosition)
    \/ Draft0Pointer("mouseleave", "leave", NoPosition)

SpecDraft0 == Init /\ [][NextDraft0]_vars

(***************************************************************************)
(* The HexGrid draft of src/unnamed/part_001: no zoom, no pan; windowSize  *)
(* is React state, requestRef (frameRef here) keeps the request handle,    *)
(* and the effect depends on [hexSize, tiles].                             *)
(***************************************************************************)
\* What the effect run of a React render with props p closes over.
Draft1Closure(p) ==
    [hexSize |-> p.hexSize, tiles |-> p.tiles, windowSize |-> draftWindowSize]

Draft1Setup(w, cl) ==
    LET inst == Len(w.closures) + 1
        w1 == [w EXCEPT !.closures = Append(@, cl)]
    IN  requestAnimationFrame(w1, inst)

Draft1Cleanup(w) == cancelAnimationFrame(w, w.frameRef)

Draft1RunEffect(w, p) ==
    IF hasContext THEN /\ SetWorld(Draft1Setup(w, Draft1Closure(p)))
                       /\ phase' = "mounted"
    ELSE /\ SetWorld(w)
         /\ phase' = "inert"

Draft1Mount ==
    /\ phase = "rendered"
    /\ DraftStep("mount")
    /\ Draft1RunEffect(World, props)
    /\ UNCHANGED <<props, zoom, offset, isDragging, lastMousePosition, viewport,
                   canvasSize, drawn, ptrHistory, cleaned, draftWindowSize>>

\* A parent re-render with another hexSize or other tiles.
Draft1ReRun(p) ==
    /\ phase \in {"mounted", "inert"}
    /\ p.hexSize # props.hexSize \/ p.tiles # props.tiles
    /\ DraftStep("rerun")
    /\ props' = p
    /\ IF phase = "mounted"
       THEN /\ Draft1RunEffect(Draft1Cleanup(World), p)
            /\ cleaned' = cleaned \cup {Live}
       ELSE /\ Draft1RunEffect(World, p)
            /\ cleaned' = cleaned
    /\ UNCHANGED <<zoom, offset, isDragging, lastMousePosition, viewport,
                   canvasSize, drawn, ptrHistory, draftWindowSize>>

Draft1Unmount ==
    /\ phase \in {"mounted", "inert"}
    /\ DraftStep("unmount")
    /\ phase' = "unmounted"
    /\ IF phase = "mounted"
       THEN /\ SetWorld(Draft1Cleanup(World))
            /\ cleaned' = cleaned \cup {Live}
       ELSE /\ SetWorld(World)
            /\ cleaned' = cleaned
    /\ UNCHANGED <<props, zoom, offset, isDragging, lastMousePosition,
                   viewport, canvasSize, drawn, ptrHistory, draftWindowSize>>

\* render of effect run c.inst: renderGrid(ctx, tiles, hexSize,
\* windowSize.innerWidth, windowSize.innerHeight), which has no offset.
Draft1Render(c) ==
    LET cl == closures[c.inst]
        w0 == [World EXCEPT !.pending = @ \ {c}]
    IN  /\ drawn' = [by |-> c.inst] @@
                     renderGrid(cl.tiles, cl.hexSize * ZoomInit, cl.windowSize,
                                [x |-> 0, y |-> 0])
        /\ SetWorld(requestAnimationFrame(w0, c.inst))

Draft1Redraw(c) ==
    /\ c \in pending
    /\ DraftStep("redraw")
    /\ Draft1Render(c)
    /\ UNCHANGED <<phase, props, zoom, offset, isDragging, lastMousePosition,
                   viewport, canvasSize, ptrHistory, cleaned, draftWindowSize>>

\* resizeWindow: the windowSize state, and with it the canvas' width and
\* height attributes, follow the viewport; the effect does not run again.
Draft1Resize(v) ==
    /\ phase \in {"mounted", "inert"}
    /\ v # viewport
    /\ DraftStep("resize")
    /\ viewport' = v
    /\ draftWindowSize' = v
    /\ canvasSize' = v
    /\ UNCHANGED <<phase, props, closures, listeners, pending, nextHandle,
                   frameRef, zoom, offset, isDragging, lastMousePosition,
                   drawn, ptrHistory, cleaned>>

NextDraft1 ==
    \/ Draft1Mount
    \/ \E p \in PropChanges : Draft1ReRun(p)
    \/ Draft1Unmount
    \/ \E c \in pending : Draft1Redraw(c)
    \/ \E v \in Viewports : Draft1Resize(v)

SpecDraft1 == Init /\ [][NextDraft1]_vars

(***************************************************************************)
(* handleWheel as JavaScript computes it, on IEEE-754 doubles.  A double d *)
(* with 0 <= d < 4 and a last bit of weight 2^-56 or more is the record    *)
(* [hi, lo] with d * 2^56 = hi * 2^28 + lo and 0 <= lo < 2^28: two limbs,  *)
(* since the numbers do not fit one machine integer of the checker.  Every *)
(* operand and every exact sum or product below is such a number; the      *)
(* result of an operation is the exact result rounded to 53 significant    *)
(* bits, ties to even.  Here zoomSpeed is a whole number, not tenths.      *)
(***************************************************************************)
LimbBase == 2 ^ 28

Norm(h, l) == [hi |-> h + l \div LimbBase, lo |-> l % LimbBase]

DLess(a, b) == a.hi < b.hi \/ (a.hi = b.hi /\ a.lo < b.lo)
DMax(a, b) == IF DLess(a, b) THEN b ELSE a
DMin(a, b) == IF DLess(b, a) THEN b ELSE a

\* The exact sum, and the exact difference of a >= b.
DAdd(a, b) == Norm(a.hi + b.hi, a.lo + b.lo)
DSub(a, b) == Norm(a.hi - b.hi - 1, a.lo + LimbBase - b.lo)

RECURSIVE DTimes(_, _)
DTimes(k, a) == IF k = 0 THEN Norm(0, 0) ELSE DAdd(a, DTimes(k - 1, a))

\* The weight of the last of the 53 significant bits of a, in units of
\* 2^-56: 1 in [2^-4, 2^-3), 2 in [2^-3, 2^-2), ..., 16 in [1, 2), 32 in [2, 4).
Ulp(a) ==
    CASE a.hi < 2 ^ 25 -> 1
      [] a.hi < 2 ^ 26 -> 2
      [] a.hi < 2 ^ 27 -> 4
      [] a.hi < 2 ^ 28 -> 8
      [] a.hi < 2 ^ 29 -> 16
      [] OTHER -> 32

\* Rounding toward zero.
RoundDown(a) ==
    LET u == Ulp(a)
    IN  Norm(a.hi, (a.lo \div u) * u)

\* Rounding to the nearest double, ties to the even significand.
RoundNearestEven(a) ==
    LET u == Ulp(a)
        quot == a.lo \div u
        rem == a.lo % u
        up == 2 * rem > u \/ (2 * rem = u /\ quot % 2 = 1)
    IN  Norm(a.hi, (IF up THEN quot + 1 ELSE quot) * u)

\* The literals 0.1, 0.5, 1 and 2.
Tenth == [hi |-> 26843545, lo |-> 161061274]
DHalf == Norm(2 ^ 27, 0)
DOne == Norm(2 ^ 28, 0)
DTwo == Norm(2 ^ 29, 0)

\* |delta| = 0.1 * zoomSpeed; delta is that or its negation.
DeltaMagnitude(zoomSpeed) == RoundNearestEven(DTimes(zoomSpeed, Tenth))

\* zoom.current + delta, before the clamp.
WheelSum(z, zoomSpeed, deltaY) ==
    IF deltaY < 0 THEN RoundNearestEven(DAdd(z, DeltaMagnitude(zoomSpeed)))
    ELSE RoundNearestEven(DSub(z, DeltaMagnitude(zoomSpeed)))

handleWheelDouble(z, zoomSpeed, deltaY) ==
    DMin(DMax(WheelSum(z, zoomSpeed, deltaY), DHalf), DTwo)

\* The zoomSpeed props of SpecZoomDouble.
ZoomSpeeds == 1..4

\* The mounted component of a parent that passes zoomSpeed: zoom.current = 1.
InitZoomDouble ==
    /\ \E k \in ZoomSpeeds : props = [DefaultProps EXCEPT !.zoomSpeed = k]
    /\ phase = "mounted"
    /\ closures = <<props>>
    /\ listeners = addEventListeners([listeners |-> << >>], 1).listeners
    /\ pending = { [id |-> 1, inst |-> 1] }
    /\ nextHandle = 2
    /\ frameRef = 1
    /\ zoom = DOne
    /\ offset = [x |-> 0, y |-> 0]
    /\ isDragging = FALSE
    /\ lastMousePosition = [x |-> 0, y |-> 0]
    /\ viewport = InitialViewport
    /\ hasContext = TRUE
    /\ canvasSize = [width |-> 0, height |-> 0]
    /\ drawn = NoDraw
    /\ ptrHistory = << >>
    /\ cleaned = {}
    /\ lastEvent = "mount"
    /\ nEvents = 0
    /\ draftWindowSize = InitialViewport
    /\ wheelHistory = << >>
    /\ InitGridIdle
    /\ InitHomeIdle

\* A wheel event; the history keeps the latest two.
WheelDouble(deltaY) ==
    /\ Listening("wheel")
    /\ lastEvent' = "wheel"
    /\ zoom' = handleWheelDouble(zoom, closures[Live].zoomSpeed, deltaY)
    /\ wheelHistory' =
          LET h == [deltaY |-> deltaY, before |-> zoom,
                    sum |-> WheelSum(zoom, closures[Live].zoomSpeed, deltaY),
                    after |-> zoom']
          IN  IF wheelHistory = << >> THEN <<h>>
              ELSE <<wheelHistory[Len(wheelHistory)], h>>
    /\ UNCHANGED <<phase, props, closures, listeners, pending, nextHandle,
                   frameRef, offset, isDragging, lastMousePosition, viewport,
                   canvasSize, drawn, ptrHistory, cleaned, nEvents, hasContext,
                   draftWindowSize, gridVars, homeVars>>

NextZoomDouble == \E d \in DeltaYs : WheelDouble(d)

SpecZoomDouble == InitZoomDouble /\ [][NextZoomDouble]_vars

(***************************************************************************)
(* generateHexGrid(radius), one loop test per step.                        *)
(*   gpc = "outer": at the test of the loop over q                         *)
(*   gpc = "inner": at the test of the loop over r                         *)
(*   gpc = "done":  returned hexes                                         *)
(***************************************************************************)
MaxRadius == 4

\* The loop over r started at -radius whatever q is.
RFirst_Unclamped(hq, rad) == -rad

\* The bounds of the loop over r.
RFirst(hq, rad) == Max(-rad, -hq - rad)
RLast(hq, rad) == Min(rad, -hq + rad)

\* The call generateHexGrid(rad): hexes = [], q = -radius.
GridCall(rad) ==
    /\ radius = rad
    /\ hexes = << >>
    /\ q = -rad
    /\ r = 0
    /\ gpc = "outer"

GridOuter ==
    /\ gpc = "outer"
    /\ IF q <= radius
       THEN /\ r' = RFirst(q, radius)
            /\ gpc' = "inner"
       ELSE /\ r' = r
            /\ gpc' = "done"
    /\ UNCHANGED <<radius, q, hexes, hexGridVars, homeVars>>

GridInner ==
    /\ gpc = "inner"
    /\ IF r <= RLast(q, radius)
       THEN /\ hexes' = Append(hexes, createHex(q, r))
            /\ r' = r + 1
            /\ UNCHANGED <<q, gpc>>
       ELSE /\ q' = q + 1
            /\ gpc' = "outer"
            /\ UNCHANGED <<r, hexes>>
    /\ UNCHANGED <<radius, hexGridVars, homeVars>>

InitGrid ==
    /\ InitHexGrid /\ hasContext
    /\ InitHomeIdle
    /\ \E rad \in -MaxRadius..MaxRadius : GridCall(rad)

NextGrid == GridOuter \/ GridInner
SpecGrid == InitGrid /\ [][NextGrid]_vars

(***************************************************************************)
(* Home: hexes = generateHexGrid(radius); planetDeck = shuffle(planets);   *)
(* tiles = hexes.map(...).                                                 *)
(*   hpc = "grid":    inside generateHexGrid                               *)
(*   hpc = "shuffle": inside shuffle, at the loop test                     *)
(*   hpc = "map":     inside hexes.map, before the callback of hexes[hidx] *)
(*   hpc = "done":    tiles handed to HexGrid                              *)
(* Math.random() yields one of the RandRes values k / RandRes.             *)
(***************************************************************************)
RandRes == 2
MaxCatalog == 7
HomeRadii == {0, 1}

\* The catalog of the import: n distinct records; mecatol is not one of them.
Planets(n) == [i \in 1..n |-> [id |-> i]]
mecatol == [id |-> 0]
\* What a tile carries of a planet when the deck gave undefined.
NoPlanet == [id |-> -1]

\* Math.floor(Math.random() * n)
RandomIndex(n) == { (k * n) \div RandRes : k \in 0..(RandRes - 1) }

\* An exchange that writes a[i] and loses its old value.
Swap_Overwrites(a, i, j) == [a EXCEPT ![i + 1] = a[j + 1]]

\* [a[i], a[j]] = [a[j], a[i]], i and j counted from 0
Swap(a, i, j) == [a EXCEPT ![i + 1] = a[j + 1], ![j + 1] = a[i + 1]]

\* A read of deck[i] that leaves the deck as it is.
splice_KeepsDeck(deck, i) ==
    IF i < Len(deck)
    THEN [removed |-> <<deck[i + 1]>>, deck |-> deck]
    ELSE [removed |-> << >>, deck |-> deck]

\* deck.splice(i, 1): the removed elements and what is left of the deck
splice(deck, i) ==
    IF i < Len(deck)
    THEN [removed |-> <<deck[i + 1]>>,
          deck |-> SubSeq(deck, 1, i) \o SubSeq(deck, i + 2, Len(deck))]
    ELSE [removed |-> << >>, deck |-> deck]

\* An alias of the array instead of a copy of it.
ArrayCopy_Alias(array) == [ref |-> "planets", elems |-> array]

\* [...array]: a new array object with the elements of array
ArrayCopy(array) == [ref |-> "copy", elems |-> array]

\* The elements of the planets array after a write that left the array
\* deckRef denotes with the elements elems.
PlanetsAfter(elems) == IF deckRef = "planets" THEN elems ELSE catalog

\* removed[0]
First(removed) == IF removed = << >> THEN NoPlanet ELSE removed[1]

InitHome ==
    /\ InitHexGrid /\ hasContext
    /\ \E rad \in HomeRadii : GridCall(rad)
    /\ \E n \in 0..MaxCatalog : catalog = Planets(n)
    /\ copy = << >> /\ si = 0 /\ planetDeck = << >>
    /\ tiles = << >> /\ hidx = 0 /\ hpc = "grid"
    /\ deckRef = "none" /\ choices = << >> /\ runs = 1

\* generateHexGrid returned; shuffle is entered: copy = [...array]
ShuffleCall ==
    /\ hpc = "grid" /\ gpc = "done"
    /\ copy' = ArrayCopy(catalog).elems
    /\ deckRef' = ArrayCopy(catalog).ref
    /\ si' = Len(catalog) - 1
    /\ choices' = << >>
    /\ hpc' = "shuffle"
    /\ UNCHANGED <<catalog, planetDeck, tiles, hidx, runs, hexGridVars, gridVars>>

ShuffleLoop(j) ==
    /\ hpc = "shuffle" /\ si > 0
    /\ copy' = Swap(copy, si, j)
    /\ catalog' = PlanetsAfter(copy')
    /\ si' = si - 1
    /\ choices' = Append(choices, j)
    /\ UNCHANGED <<planetDeck, tiles, hidx, hpc, deckRef, runs, hexGridVars, gridVars>>

ShuffleReturn ==
    /\ hpc = "shuffle" /\ ~(si > 0)
    /\ planetDeck' = copy
    /\ tiles' = << >>
    /\ hidx' = 0
    /\ hpc' = "map"
    /\ UNCHANGED <<catalog, copy, si, deckRef, choices, runs, hexGridVars, gridVars>>

\* The callback of hexes.map on hexes[hidx]; rnd is Math.floor(Math.random() * length).
MapStep(rnd) ==
    /\ hpc = "map" /\ hidx < Len(hexes)
    /\ LET hex == hexes[hidx + 1]
       IN  IF hex.q = 0 /\ hex.r = 0
           THEN /\ tiles' = Append(tiles, [planet |-> mecatol, hex |-> hex])
                /\ planetDeck' = planetDeck
           ELSE LET sp == splice(planetDeck, rnd)
                IN  /\ tiles' = Append(tiles, [planet |-> First(sp.removed), hex |-> hex])
                    /\ planetDeck' = sp.deck
    /\ catalog' = PlanetsAfter(planetDeck')
    /\ hidx' = hidx + 1
    /\ UNCHANGED <<copy, si, hpc, deckRef, choices, runs, hexGridVars, gridVars>>

MapReturn ==
    /\ hpc = "map" /\ ~(hidx < Len(hexes))
    /\ hpc' = "done"
    /\ UNCHANGED <<catalog, copy, si, planetDeck, tiles, hidx, deckRef, choices,
                   runs, hexGridVars, gridVars>>

NextHome ==
    \/ GridOuter
    \/ GridInner
    \/ ShuffleCall
    \/ \E j \in RandomIndex(si + 1) : ShuffleLoop(j)
    \/ ShuffleReturn
    \/ \E rnd \in RandomIndex(Len(planetDeck)) : MapStep(rnd)
    \/ MapReturn
SpecHome == InitHome /\ [][NextHome]_vars

(***************************************************************************)
(* Home called again (a re-render): its locals are fresh, the imported     *)
(* planets array is the one the previous call left.                        *)
(***************************************************************************)
MaxRuns == 2

HomeAgain ==
    /\ hpc = "done" /\ runs < MaxRuns
    /\ runs' = runs + 1
    /\ hexes' = << >> /\ q' = -radius /\ r' = 0 /\ gpc' = "outer"
    /\ copy' = << >> /\ si' = 0 /\ planetDeck' = << >>
    /\ tiles' = << >> /\ hidx' = 0 /\ hpc' = "grid"
    /\ deckRef' = "none" /\ choices' = << >>
    /\ UNCHANGED <<radius, catalog, hexGridVars>>

\* The cells of the grid of radius rad but the center.
OtherCells(rad) == 3 * rad * rad + 3 * rad

\* Catalogs with just enough records, and with one to spare.
InitHomeRuns ==
    /\ InitHexGrid /\ hasContext
    /\ \E rad \in HomeRadii :
          /\ GridCall(rad)
          /\ \E n \in {OtherCells(rad), OtherCells(rad) + 1} : catalog = Planets(n)
    /\ copy = << >> /\ si = 0 /\ planetDeck = << >>
    /\ tiles = << >> /\ hidx = 0 /\ hpc = "grid"
    /\ deckRef = "none" /\ choices = << >> /\ runs = 1

NextHomeRuns ==
    \/ GridOuter
    \/ GridInner
    \/ ShuffleCall
    \/ \E j \in RandomIndex(si + 1) : ShuffleLoop(j)
    \/ ShuffleReturn
    \/ \E rnd \in RandomIndex(Len(planetDeck)) : MapStep(rnd)
    \/ MapReturn
    \/ HomeAgain
SpecHomeRuns == InitHomeRuns /\ [][NextHomeRuns]_vars

(***************************************************************************)
(* shuffle(array) alone, on arrays of up to MaxShuffleLen elements, with   *)
(* Math.floor(Math.random() * (i + 1)) taking each of its values 0..i.     *)
(***************************************************************************)
MaxShuffleLen == 4

\* The arrays shuffled: distinct records, and arrays over two records.
ShuffleInputs ==
    { Planets(n) : n \in 0..MaxShuffleLen }
    \cup UNION { [1..n -> { [id |-> 1], [id |-> 2] }] : n \in 1..MaxShuffleLen }

\* The call shuffle(array): copy = [...array], i = copy.length - 1.
InitShuffle ==
    /\ InitHexGrid /\ hasContext
    /\ InitGridIdle
    /\ catalog \in ShuffleInputs
    /\ copy = ArrayCopy(catalog).elems
    /\ deckRef = ArrayCopy(catalog).ref
    /\ si = Len(catalog) - 1
    /\ choices = << >>
    /\ planetDeck = << >> /\ tiles = << >> /\ hidx = 0 /\ runs = 1
    /\ hpc = "shuffle"

NextShuffle ==
    \/ \E j \in 0..si : ShuffleLoop(j)
    \/ ShuffleReturn
SpecShuffle == InitShuffle /\ [][NextShuffle]_vars

(***************************************************************************)
(* Properties.                                                             *)
(***************************************************************************)
Abs(n) == IF n < 0 THEN -n ELSE n
Plus(a, b) == [x |-> a.x + b.x, y |-> a.y + b.y]
Minus(a, b) == [x |-> a.x - b.x, y |-> a.y - b.y]
Times(n, a) == [x |-> n * a.x, y |-> n * a.y]
Origin == [x |-> 0, y |-> 0]
Kinds(h) == [i \in 1..Len(h) |-> h[i].kind]
HasInput == ptrHistory # << >> /\ zoom # ZoomInit

\* C1: in every reachable state the zoom factor is within [0.5, 2.0],
\* whatever wheel events, pointer events, redraw ticks, re-runs with another
\* zoomSpeed (fractional, negative, larger than the interval) came before.
C1_ZoomClamped == ZoomMin <= zoom /\ zoom <= ZoomMax

\* C1, witness: wheel events under a negative zoomSpeed, among pointer
\* events, drove the zoom to a bound.
C1_Witness ==
    /\ lastEvent = "wheel"
    /\ zoom \in {ZoomMin, ZoomMax}
    /\ props.zoomSpeed < 0
    /\ ptrHistory # << >>

\* Move i of history h was received while dragging: a press came before it
\* with no release or leave in between.
IsDragMove(h, i) ==
    /\ h[i].kind = "move"
    /\ \E j \in 1..(i - 1) :
          /\ h[j].kind = "press"
          /\ \A k \in (j + 1)..(i - 1) : h[k].kind \notin {"release", "leave"}

\* The latest press or move before event i.
BaselineIndex(h, i) ==
    CHOOSE k \in 1..(i - 1) :
        /\ h[k].kind \in {"press", "move"}
        /\ \A m \in (k + 1)..(i - 1) : h[m].kind \notin {"press", "move"}

\* The sum over the moves received while dragging, among the first n events,
\* of (position - baseline), each scaled by its panSpeed when scaled holds.
RECURSIVE DragSum(_, _, _)
DragSum(h, n, scaled) ==
    IF n = 0 THEN Origin
    ELSE LET d == IF IsDragMove(h, n)
                  THEN Times(IF scaled THEN h[n].panSpeed ELSE 1,
                             Minus(h[n].pos, h[BaselineIndex(h, n)].pos))
                  ELSE Origin
         IN  Plus(DragSum(h, n - 1, scaled), d)

\* C2: the pan offset is the sum of the per-move deltas (position minus the
\* position of the press or of the previous move of the drag), each scaled by
\* panSpeed; with one panSpeed throughout it is panSpeed times the sum of the
\* deltas; while dragging the baseline is the position of the latest press or
\* move, so the way from a release to the next press adds nothing.
C2_PanOffset ==
    LET h == ptrHistory
        n == Len(ptrHistory)
    IN  /\ offset = DragSum(h, n, TRUE)
        /\ (\A i \in 1..n : h[i].panSpeed = props.panSpeed)
              => offset = Times(props.panSpeed, DragSum(h, n, FALSE))
        /\ isDragging => lastMousePosition = h[BaselineIndex(h, n + 1)].pos

\* C2, witness: a drag, a release, a press elsewhere and another move.
C2_Witness ==
    /\ Kinds(ptrHistory) = <<"press", "move", "release", "press", "move">>
    /\ ptrHistory[4].pos # ptrHistory[2].pos
    /\ ptrHistory[5].pos # ptrHistory[4].pos
    /\ offset # Origin

\* The kind of the latest press, release or leave of history h.
RECURSIVE LastModeEvent(_)
LastModeEvent(h) ==
    IF h = << >> THEN "none"
    ELSE IF h[Len(h)].kind \in {"press", "release", "leave"} THEN h[Len(h)].kind
    ELSE LastModeEvent(SubSeq(h, 1, Len(h) - 1))

\* C3: the mode starts idle; a press makes it dragging, a release or a leave
\* makes it idle, every other step leaves it as it is; so the mode is dragging
\* exactly when the latest press, release or leave was a press.
C3_ModeMachine ==
    /\ [](isDragging <=> LastModeEvent(ptrHistory) = "press")
    /\ [][ /\ lastEvent' = "press" => isDragging'
           /\ lastEvent' \in {"release", "leave"} => ~isDragging'
           /\ lastEvent' \notin {"press", "release", "leave"}
                 => isDragging' = isDragging ]_vars

\* C3, witness: dragging again after a leave, a move and a redraw later.
C3_Witness ==
    /\ isDragging
    /\ lastEvent = "redraw"
    /\ Len(ptrHistory) = 4
    /\ Kinds(ptrHistory) = <<"press", "leave", "press", "move">>

PendingOf(inst) == { c \in pending : c.inst = inst }
ListenersOf(inst) == { i \in 1..Len(listeners) : listeners[i].inst = inst }

\* C4: once the cleanup of an effect run has run, none of its redraw
\* requests is pending, none of its listeners is attached, and no redraw is
\* one of that run.
C4_CleanupLeavesNothing ==
    \A inst \in cleaned :
        /\ PendingOf(inst) = {}
        /\ ListenersOf(inst) = {}
        /\ lastEvent = "redraw" => drawn.by # inst

\* C4, witness: a cleanup after redraw ticks and input events.
C4_Witness ==
    /\ lastEvent \in {"unmount", "rerun"}
    /\ cleaned # {}
    /\ drawn # NoDraw
    /\ HasInput

\* C5: at most one redraw request is outstanding in the frame scheduler.
C5_OneRequest == Cardinality(pending) <= 1

\* C5, witness: the one request of a redraw tick of the second effect run.
C5_Witness ==
    /\ Cardinality(pending) = 1
    /\ lastEvent = "redraw"
    /\ drawn.by = 2
    /\ nextHandle > 3

\* C6: a redraw tick hands the renderer hexSize times the zoom, the pan
\* offset and the viewport size as they are at the tick.
C6_RedrawUsesCurrent ==
    lastEvent = "redraw" =>
        /\ drawn.size = props.hexSize * zoom
        /\ drawn.offset = offset
        /\ drawn.canvas = viewport

\* C6, witness: the first redraw after a wheel event, a drag and a resize.
C6_Witness ==
    /\ lastEvent = "redraw"
    /\ nextHandle = 3
    /\ viewport # InitialViewport
    /\ zoom # ZoomInit
    /\ offset # Origin

Range(s) == { s[i] : i \in 1..Len(s) }
NoDuplicates(s) == \A i, j \in 1..Len(s) : s[i] = s[j] => i = j

\* The coordinates within distance rad of the origin.
HexBall(rad) ==
    { [q |-> a, r |-> b, s |-> -a - b] : <<a, b>> \in
        { ab \in (-rad..rad) \X (-rad..rad) :
            Max(Max(Abs(ab[1]), Abs(ab[2])), Abs(-ab[1] - ab[2])) <= rad } }

\* C7: for a radius R >= 0, generateHexGrid returns a list without
\* duplicates whose elements are exactly the (q, r, s) with s = -q - r and
\* max(|q|, |r|, |s|) <= R: 3R^2 + 3R + 1 of them, each with q + r + s = 0.
C7_GridIsHexBall ==
    (gpc = "done" /\ radius >= 0) =>
        /\ NoDuplicates(hexes)
        /\ Range(hexes) = HexBall(radius)
        /\ Len(hexes) = 3 * radius * radius + 3 * radius + 1
        /\ \A h \in Range(hexes) : h.q + h.r + h.s = 0

\* C7, witness: the grid of radius 3 with its 37 cells.
C7_Witness == gpc = "done" /\ radius = 3 /\ Len(hexes) = 37

IsCenter(hex) == hex.q = 0 /\ hex.r = 0
NonCenter(hs) == { i \in 1..Len(hs) : ~IsCenter(hs[i]) }

\* C8: with a catalog of at least (cell count - 1) distinct records, Home
\* ends with one tile per coordinate, in order; the tile at (0, 0) carries
\* mecatol, every other tile a record of the catalog, no two the same.
C8_AssignmentIsInjective ==
    (hpc = "done" /\ Len(catalog) >= Len(hexes) - 1) =>
        /\ Len(tiles) = Len(hexes)
        /\ \A k \in 1..Len(tiles) :
              /\ tiles[k].hex = hexes[k]
              /\ IsCenter(hexes[k]) => tiles[k].planet = mecatol
              /\ ~IsCenter(hexes[k]) => tiles[k].planet \in Range(catalog)
        /\ \A k, l \in NonCenter(hexes) :
              tiles[k].planet = tiles[l].planet => k = l

\* C8, witness: seven tiles from a catalog with a record to spare, the
\* first tile not carrying the first record of the catalog.
C8_Witness ==
    /\ hpc = "done"
    /\ Len(tiles) = 7
    /\ Len(catalog) = 7
    /\ tiles[1].planet # catalog[1]
    /\ planetDeck # << >>

\* C9: with fewer catalog records than non-center cells, Home does not end
\* with a tile set, and no tile is made that carries no planet record.
C9_ShortCatalogRejected ==
    (gpc = "done" /\ Len(catalog) < Cardinality(NonCenter(hexes))) =>
        /\ hpc # "done"
        /\ \A k \in 1..Len(tiles) : tiles[k].planet # NoPlanet

\* C10: generateHexGrid with a negative radius does not return a grid.
C10_NegativeRadiusRejected == radius < 0 => gpc # "done"

\* The arrays that hold the elements of a in another order.
Rearrangements(a) ==
    { [i \in 1..Len(a) |-> a[f[i]]] : f \in Permutations(1..Len(a)) }

\* The sequences of indices the loop of shuffle may draw on n elements: the
\* k-th draw, made at i = n - k, is in 0..i.
ChoiceSeqs(n) ==
    IF n <= 1 THEN { << >> }
    ELSE { cs \in [1..(n - 1) -> 0..(n - 1)] : \A k \in 1..(n - 1) : cs[k] <= n - k }

\* The array the loop of shuffle leaves of a when it draws cs, from draw k on.
RECURSIVE ShuffleBy(_, _, _)
ShuffleBy(a, cs, k) ==
    IF k > Len(cs) THEN a
    ELSE ShuffleBy(Swap(a, Len(a) - k, cs[k]), cs, k + 1)

ShuffleResults(a) == { ShuffleBy(a, cs, 1) : cs \in ChoiceSeqs(Len(a)) }

\* C11: shuffle returns a rearrangement of its input, the one of the indices
\* it drew; the possible results are all the rearrangements of the input; and
\* on distinct elements no two sequences of draws give the same result.
C11_ShuffleIsUniformPermutation ==
    hpc = "map" =>
        /\ planetDeck \in Rearrangements(catalog)
        /\ planetDeck = ShuffleBy(catalog, choices, 1)
        /\ choices \in ChoiceSeqs(Len(catalog))
        /\ ShuffleResults(catalog) = Rearrangements(catalog)
        /\ NoDuplicates(catalog) =>
              Cardinality(ShuffleResults(catalog)) = Cardinality(ChoiceSeqs(Len(catalog)))

\* C11, witness: four distinct records returned in reverse order.
C11_Witness ==
    /\ hpc = "map"
    /\ catalog = Planets(4)
    /\ planetDeck = [i \in 1..4 |-> catalog[5 - i]]

\* C18: no step of Home changes the imported catalog, the deck that is
\* shuffled and spliced is a copy of it, and every run of Home, the first
\* and the later ones, ends with a tile for every cell, none without a
\* planet record.
C18_CatalogUntouched ==
    /\ [][catalog' = catalog]_vars
    /\ [](deckRef # "planets")
    /\ [](hpc = "shuffle" /\ choices = << >> => copy = Planets(Len(copy)))
    /\ [](hpc = "done" =>
            /\ Len(tiles) = Len(hexes)
            /\ \A k \in 1..Len(tiles) : tiles[k].planet # NoPlanet)

\* C18, witness: the second run of Home ended with its seven tiles.
C18_Witness ==
    /\ runs = 2
    /\ hpc = "done"
    /\ Len(tiles) = 7
    /\ \A k \in 1..Len(tiles) : tiles[k].planet # NoPlanet

\* C16: a pointer-move received in idle mode changes neither the pan
\* offset, nor the delta baseline, nor the zoom, nor the mode.
C16_IdleMoveChangesNothing ==
    [][ (lastEvent' = "move" /\ ~isDragging) =>
            /\ offset' = offset
            /\ lastMousePosition' = lastMousePosition
            /\ zoom' = zoom
            /\ isDragging' = isDragging ]_vars

\* C16, witness: a move after a drag was ended by a leave, at a position
\* other than the one of the drag's last move.
C16_Witness ==
    /\ lastEvent = "move"
    /\ ~isDragging
    /\ Kinds(ptrHistory) = <<"press", "move", "leave", "move">>
    /\ ptrHistory[4].pos # ptrHistory[2].pos
    /\ offset # Origin

\* C17: a wheel event changes at most the zoom: not the pan offset, the mode
\* or the delta baseline; a pointer event or a redraw tick does not change
\* the zoom; none of them changes the tile set.
C17_ZoomAndPanIndependent ==
    [][ /\ lastEvent' = "wheel" =>
              /\ offset' = offset
              /\ isDragging' = isDragging
              /\ lastMousePosition' = lastMousePosition
        /\ lastEvent' \in {"press", "move", "release", "leave", "redraw"} =>
              zoom' = zoom
        /\ lastEvent' \in {"wheel", "press", "move", "release", "leave", "redraw"} =>
              /\ props'.tiles = props.tiles
              /\ closures' = closures ]_vars

\* C17, witness: a wheel event in the middle of a drag.
C17_Witness ==
    /\ lastEvent = "wheel"
    /\ isDragging
    /\ offset # Origin
    /\ zoom # ZoomInit

\* The sizes renderGrid can be called with: hexSize * zoom.
Sizes == { pr.hexSize * z : pr \in PropChanges \cup {DefaultProps}, z \in ZoomMin..ZoomMax }

\* hexToPixel maps the origin hex to (0, 0) at every size.
OriginFixed == \A size \in Sizes : hexToPixel(createHex(0, 0), size) = Origin

\* C12: hexToPixel maps the origin hex to (0, 0) for every size, and every
\* redraw centres the origin tile at (canvas.width / 2 + offset.x,
\* canvas.height / 2 + offset.y), whatever the zoom.
C12_OriginPreserved ==
    /\ OriginFixed
    /\ lastEvent = "redraw" =>
          /\ hexToPixel(createHex(0, 0), drawn.size) = Origin
          /\ drawn.centers[createHex(0, 0)] =
                [x |-> 100000 * canvasSize.width + 200000 * offset.x,
                 y |-> 100000 * canvasSize.height + 200000 * offset.y]

\* C12, witness: a redraw of a zoomed and panned view that draws the
\* origin's neighbours away from the origin tile.
C12_Witness ==
    /\ lastEvent = "redraw"
    /\ zoom # ZoomInit
    /\ offset # Origin
    /\ drawn.size = props.hexSize * zoom
    /\ drawn.centers[createHex(0, 1)] # drawn.centers[createHex(0, 0)]

\* The latest renderGrid call was made by the live effect run with the
\* current zoom and pan offset.
Fresh ==
    /\ drawn.by = Live
    /\ drawn.size = closures[Live].hexSize * zoom
    /\ drawn.offset = offset

\* C13: with a fair frame scheduler, a view that stays mounted is redrawn
\* infinitely often, and while it is mounted every zoom and pan offset is
\* eventually the one a redraw has used.
C13_RedrawnForever ==
    /\ <>[](phase = "mounted") => []<><<Tick>>_vars
    /\ [](phase = "mounted" => <>(phase # "mounted" \/ (lastEvent = "redraw" /\ Fresh)))

\* C13, witness: a zoomed view in a drag, redrawn more often than there
\* were inputs: the handle counter has wrapped.
C13_Witness ==
    /\ phase = "mounted"
    /\ lastEvent = "redraw"
    /\ zoom # ZoomInit
    /\ isDragging
    /\ Fresh
    /\ nextHandle <= nEvents

\* The effect runs that have a redraw request pending.
LiveLoops == { c.inst : c \in pending }

\* C14: in the draft of part_000, the cleanup of an effect run leaves none
\* of that run's redraw requests pending, so at most one redraw loop is live
\* and none is after unmount.
C14_DraftCleanupLeavesNothing ==
    /\ \A inst \in cleaned : PendingOf(inst) = {}
    /\ Cardinality(LiveLoops) <= 1
    /\ phase = "unmounted" => pending = {}

\* C15: in the draft of part_001, a redraw clears and centres the grid with
\* the windowSize of the latest resize, not with the dimensions its loop
\* closed over when it was started.
C15_DraftRedrawUsesNewViewport ==
    lastEvent = "redraw" =>
        /\ drawn.canvas = draftWindowSize
        /\ drawn.canvas = viewport

\* The distance of two doubles, in units of 2^-56.
DDist(a, b) == IF DLess(a, b) THEN DSub(b, a) ELSE DSub(a, b)

\* The exact value of before + delta of a wheel event h.
ExactSum(h) ==
    IF h.deltaY < 0 THEN DAdd(h.before, DeltaMagnitude(props.zoomSpeed))
    ELSE DSub(h.before, DeltaMagnitude(props.zoomSpeed))

\* The sum of a wheel event was within [0.5, 2]: the clamp did not act.
Unclamped(h) == ~DLess(h.sum, DHalf) /\ ~DLess(DTwo, h.sum)

LastWheel == wheelHistory[Len(wheelHistory)]

\* The latest two wheel events were a wheel-in and then a wheel-out,
\* neither of them clamped.
InThenOut ==
    /\ Len(wheelHistory) = 2
    /\ wheelHistory[1].deltaY < 0 /\ Unclamped(wheelHistory[1])
    /\ wheelHistory[2].deltaY >= 0 /\ Unclamped(wheelHistory[2])

\* A wheel event with deltaY < 0 does not decrease the zoom, one with
\* deltaY >= 0 does not increase it.
WheelDirection ==
    wheelHistory # << >> =>
        /\ LastWheel.deltaY < 0 => ~DLess(LastWheel.after, LastWheel.before)
        /\ LastWheel.deltaY >= 0 => ~DLess(LastWheel.before, LastWheel.after)

\* C19, as stated: the direction; an unclamped step changes the zoom by
\* exactly 0.1 * zoomSpeed; a wheel-in followed by a wheel-out, neither
\* clamped, returns the zoom to its previous value.
C19_WheelExactRoundTrip ==
    /\ WheelDirection
    /\ wheelHistory # << >> /\ Unclamped(LastWheel) =>
          LastWheel.after = ExactSum(LastWheel)
    /\ InThenOut => zoom = wheelHistory[1].before

\* C19, amended: the direction; an unclamped step sets the zoom to the
\* double nearest to zoom + delta, at most half a unit in the last place
\* from it; a wheel-in followed by a wheel-out, neither clamped, returns
\* the zoom to within 2^-52 of its previous value, and to that value itself
\* with the default zoomSpeed of 1.
C19_WheelRoundedRoundTrip ==
    /\ WheelDirection
    /\ wheelHistory # << >> /\ Unclamped(LastWheel) =>
          LET dist == DDist(LastWheel.after, ExactSum(LastWheel))
          IN  dist.hi = 0 /\ 2 * dist.lo <= Ulp(ExactSum(LastWheel))
    /\ InThenOut =>
          LET dist == DDist(zoom, wheelHistory[1].before)
          IN  /\ dist.hi = 0 /\ dist.lo <= 16
              /\ props.zoomSpeed = 1 => zoom = wheelHistory[1].before

\* C19, witness: a wheel-in and a wheel-out, neither clamped, after which
\* the zoom is not the one before them.
C19_Witness ==
    /\ InThenOut
    /\ zoom # wheelHistory[1].before
    /\ wheelHistory[2].after # ExactSum(wheelHistory[2])

====
